---- MODULE Spec2Model ----
(***************************************************************************)
(* A model of Spm_llama: the master's generation loop (spm/master.rs), the *)
(* LLama model's load / next_token / forward dispatch (models/llama3/      *)
(* llama.rs), the attention cache (models/llama3/cache.rs) as driven by    *)
(* CausalSelfAttention::forward (models/llama3/attention.rs), and the      *)
(* receipt of a protocol frame (spm/proto).                                *)
(***************************************************************************)
EXTENDS Integers, Sequences, FiniteSets, TLC

VARIABLES
    cfg,        \* Args + Config + Topology: fixed at startup
    pc,         \* where the master program is
    blocks,     \* LLama.blocks
    history,    \* LLama.history: the messages, each the tokens it encodes to
    tokens,     \* LLama.tokens
    index_pos,  \* LLama.index_pos
    generated,  \* LLama.generated
    index,      \* Master::generate: the loop's index
    nt,         \* next_token: its locals while the forward pass runs
    fwd,        \* LLama::forward: x, idx, block_idx, and the calls it issued
    eos_token_id, \* LLama.eos_token_id
    lastToken,  \* the Token next_token returned last
    lastErr,    \* the error the program ended with
    sink,       \* the fragments the stream callback received this turn
    sinkSrc,    \* for each fragment, the statement of generate that sent it
    turn,       \* bookkeeping: turns started, next_token calls of the turn
    cache,      \* Context.cache
    cacheLog,   \* bookkeeping of the cache harness: the last operation
    conn        \* a connection receiving protocol frames

vars == <<cfg, pc, blocks, history, tokens, index_pos, generated, index, nt, fwd,
          eos_token_id, lastToken, lastErr, sink, sinkSrc, turn, cache, cacheLog, conn>>

masterVars == <<pc, blocks, history, tokens, index_pos, generated, index, nt, fwd,
                eos_token_id, lastToken, lastErr, sink, sinkSrc, turn>>

(***************************************************************************)
(* Bounds of the model.                                                    *)
(***************************************************************************)
MaxLayers == 4      \* num_hidden_layers ranges over 1..MaxLayers
MaxTurns == 2       \* questions Master::run reads before 'q'
sample_len == 2     \* Args::sample_len, scaled down from its default
MaxSteps == sample_len + 1   \* next_token calls modelled per turn
MAX_SEQ_LEN == 2    \* llama3::MAX_SEQ_LEN, scaled down
MaxFrames == 3      \* frames received on one connection

Nodes == {"A", "B"}
Vocab == {0, 1, 2}
PromptLens == {1, 4}

None == <<>>
Some(v) == <<v>>

(***************************************************************************)
(* Constants of the program.                                               *)
(***************************************************************************)
PROTO_MAGIC == 17102023                    \* 0x104F4C7

\* a maximum of one GiB
MESSAGE_MAX_SIZE_GiB == 1024 * 1024 * 1024

MESSAGE_MAX_SIZE == 512 * 1024 * 1024
DEFAULT_EOS_TOKEN == "</s>"

(***************************************************************************)
(* The attention cache (cache.rs).  A key or value tensor has the shape    *)
(* (b, heads, seq, head_dim) CausalSelfAttention::forward gives it; the    *)
(* model keeps b = 1, the entries along the sequence axis (each named by   *)
(* the absolute position it was computed at) and the columns along the     *)
(* last axis.                                                              *)
(***************************************************************************)
Tensor4(h, s, d) == [heads |-> h, seq |-> s, cols |-> d]

\* Result<T>: Ok(value) or an error naming the operation that failed
Ok(v) == [ok |-> TRUE, val |-> v]
Fail(op) == [ok |-> FALSE, val |-> op]

\* Tensor::cat(&[a, b], 2): every axis but the sequence axis must agree.
Cat2(a, b) ==
    IF a.heads = b.heads /\ a.cols = b.cols
    THEN Ok(Tensor4(a.heads, a.seq \o b.seq, a.cols))
    ELSE Fail("cat")

\* a narrow of the sequence axis (axis 2) in place of the last axis
NarrowSeq(t, start, len) ==
    IF start + len <= Len(t.seq)
    THEN Ok(Tensor4(t.heads, SubSeq(t.seq, start + 1, start + len), t.cols))
    ELSE Fail("narrow")

\* t.narrow(D::Minus1, start, len): a slice of the last axis.
NarrowLast(t, start, len) ==
    IF start + len <= Len(t.cols)
    THEN Ok(Tensor4(t.heads, t.seq, SubSeq(t.cols, start + 1, start + len)))
    ELSE Fail("narrow")

\* t.dims()[1] of a (b, heads, seq, head_dim) tensor.
Dims1(t) == t.heads

\* the length of a tensor along its sequence axis (axis 2)
SeqLen(t) == Len(t.seq)

\* Cache::new
CacheNew(use_kv_cache, num_hidden_layers) ==
    [ cos |-> [p \in 0..(MAX_SEQ_LEN - 1) |-> <<"cos", p>>],
      sin |-> [p \in 0..(MAX_SEQ_LEN - 1) |-> <<"sin", p>>],
      masks |-> <<>>,
      use_kv_cache |-> use_kv_cache,
      kvs |-> [i \in 1..num_hidden_layers |-> None] ]

\* a clear that forgets the memoized masks
CacheClearKvsOnly(c) == [c EXCEPT !.kvs = [i \in 1..Len(c.kvs) |-> None]]

\* a clear that forgets the key/value slots
CacheClearMasksOnly(c) == [c EXCEPT !.masks = <<>>]

\* Cache::clear
CacheClear(c) ==
    [c EXCEPT !.masks = <<>>, !.kvs = [i \in 1..Len(c.kvs) |-> None]]

\* Cache::cosine / Cache::sine: table.narrow(0, index_pos, seq_len)
Rotary(table, position, seq_len) ==
    IF position + seq_len <= MAX_SEQ_LEN
    THEN Ok([i \in 1..seq_len |-> table[position + i - 1]])
    ELSE Fail("narrow")

\* the mask Cache::mask builds: row-major, entry (i, j) is u8::from(j > i)
MaskBuildInclusive(seq_len) ==
    [shape |-> <<seq_len, seq_len>>,
     data |-> [k \in 1..(seq_len * seq_len) |->
                 IF (k - 1) % seq_len >= (k - 1) \div seq_len THEN 1 ELSE 0]]

MaskBuild(seq_len) ==
    [shape |-> <<seq_len, seq_len>>,
     data |-> [k \in 1..(seq_len * seq_len) |->
                 IF (k - 1) % seq_len > (k - 1) \div seq_len THEN 1 ELSE 0]]

\* Cache::mask: the memoized mask, or a new one, memoized
CacheMask(c, seq_len) ==
    IF seq_len \in DOMAIN c.masks
    THEN [cache |-> c, mask |-> c.masks[seq_len], from |-> "memo"]
    ELSE LET mask == MaskBuild(seq_len) IN
         [cache |-> [c EXCEPT !.masks = (seq_len :> mask) @@ @],
          mask |-> mask, from |-> "built"]

\* the clamp of process_kv on one tensor: t.dims()[1] against the threshold,
\* then narrow(D::Minus1, dims1 - MAX_SEQ_LEN, MAX_SEQ_LEN)
Clamp(t, threshold) ==
    IF Dims1(t) > threshold
    THEN NarrowLast(t, Dims1(t) - MAX_SEQ_LEN, MAX_SEQ_LEN)
    ELSE Ok(t)

\* a store that sets the entry of every block
StoreKVAllSlots(c, block_idx, k, v) ==
    [c EXCEPT !.kvs = [i \in 1..Len(c.kvs) |-> Some(<<k, v>>)]]

\* self.kvs[block_idx] = Some((k.clone(), v.clone()))
StoreKV(c, block_idx, k, v) ==
    [c EXCEPT !.kvs[block_idx + 1] = Some(<<k, v>>)]

\* Cache::process_kv: the cache afterwards and the Result it returns; an
\* error leaves before the slot is set
ProcessKV(c, block_idx, k, v) ==
    IF ~c.use_kv_cache THEN [cache |-> c, ret |-> Ok(<<k, v>>)]
    ELSE IF c.kvs[block_idx + 1] = None
    THEN [cache |-> StoreKV(c, block_idx, k, v), ret |-> Ok(<<k, v>>)]
    ELSE LET cache_k == c.kvs[block_idx + 1][1][1]
             cache_v == c.kvs[block_idx + 1][1][2]
             k1 == Cat2(cache_k, k)
             v1 == Cat2(cache_v, v)
         IN  IF ~k1.ok THEN [cache |-> c, ret |-> k1]
             ELSE IF ~v1.ok THEN [cache |-> c, ret |-> v1]
             ELSE LET k2 == Clamp(k1.val, MAX_SEQ_LEN)
                      v2 == Clamp(v1.val, 2 * MAX_SEQ_LEN)
                  IN  IF ~k2.ok THEN [cache |-> c, ret |-> k2]
                      ELSE IF ~v2.ok THEN [cache |-> c, ret |-> v2]
                      ELSE [cache |-> StoreKV(c, block_idx, k2.val, v2.val),
                            ret |-> Ok(<<k2.val, v2.val>>)]

(***************************************************************************)
(* Topology and forwarders.                                                *)
(***************************************************************************)
\* format!("model.layers.{i}")
LayerName(i) == <<"model", "layers", i>>

\* Topology::get_node_for_layer
GetNodeForLayer(topology, layer_name) ==
    IF /\ layer_name[1] = "model" /\ layer_name[2] = "layers"
       /\ layer_name[3] \in DOMAIN topology
       /\ topology[layer_name[3]] \in Nodes
    THEN Some(topology[layer_name[3]])
    ELSE None

\* Client::new(device, &node.host, &block_layer_name), and what its ident() is
ClientNew(node_name, layer_name) ==
    [kind |-> "remote", layer_name |-> layer_name, ident |-> node_name]

\* The loop of LLama::load over 0..num_hidden_layers, from layer i on.
RECURSIVE LoadBlocks(_, _, _)
LoadBlocks(i, n, topology) ==
    IF i >= n THEN <<>>
    ELSE LET node == GetNodeForLayer(topology, LayerName(i)) IN
         IF node # None
         THEN <<ClientNew(node[1], LayerName(i))>> \o LoadBlocks(i + 1, n, topology)
         ELSE LoadBlocks(i + 1, n, topology)

\* load_tokenizer: config.eos_token_id.or_else(|| tokenizer.token_to_id("</s>"))
ResolveEos(config_eos, tokenizer_eos) ==
    IF config_eos # None THEN config_eos ELSE tokenizer_eos

(***************************************************************************)
(* Tokens.                                                                 *)
(***************************************************************************)
\* tokenizer.decode(&[id], false): the text of an id, or no text
Decode(id) ==
    IF id = 0 THEN Some(DEFAULT_EOS_TOKEN) ELSE IF id = 1 THEN Some("a") ELSE None

\* impl Display for Token
TokenToString(token) ==
    IF token.text # None THEN token.text[1]
    ELSE CASE token.id = 0 -> "<token 0>"
           [] token.id = 1 -> "<token 1>"
           [] OTHER -> "<token 2>"

\* what the field would be if next_token never set it
IsEndOfStreamNeverSet(next_token, eos) == FALSE

\* is_end_of_stream: Some(next_token) == self.eos_token_id
IsEndOfStream(next_token, eos) == Some(next_token) = eos

\* Token { id, text, is_end_of_stream } as next_token builds it
MakeToken(next_token, eos) ==
    [id |-> next_token, text |-> Decode(next_token),
     is_end_of_stream |-> IsEndOfStream(next_token, eos)]

\* history.encode_dialog_to_prompt() then tokenizer.encode(): a message of m
\* tokens contributes m ids, none of them special
RECURSIVE EncodeDialog(_)
EncodeDialog(h) ==
    IF h = <<>> THEN <<>>
    ELSE EncodeDialog(SubSeq(h, 1, Len(h) - 1))
         \o [p \in 1..h[Len(h)] |-> 1 + (p % 2)]

\* a subtraction that gives up the offset
SaturatingSubZero(a, b) == 0

\* usize::saturating_sub
SaturatingSub(a, b) == IF a >= b THEN a - b ELSE 0

(***************************************************************************)
(* The master program: main -> Master::new -> Master::run.                 *)
(***************************************************************************)
NoToken == [id |-> 0, text |-> None, is_end_of_stream |-> FALSE]
NoCall == [x |-> [seq_len |-> 0, input |-> <<>>, applied |-> <<>>],
           idx |-> 0, block_idx |-> 0, calls |-> <<>>]
NoLocals == [num_tokens |-> 0, context_size |-> 0, context_index |-> 0,
             num_context_tokens |-> 0]
NoErr == [op |-> "none", block |-> 0]

Topologies(n) == [0..(n - 1) -> Nodes \cup {"none"}]

EosChoices == { <<None, None>>, <<Some(0), Some(1)>>, <<None, Some(0)>> }

Configs ==
    UNION { { [num_hidden_layers |-> n, topology |-> t, config_eos |-> e[1],
               tokenizer_eos |-> e[2], prompt |-> p, sample_len |-> sample_len] :
                t \in Topologies(n), e \in EosChoices, p \in {"", "hi"} } :
            n \in 1..MaxLayers }

NoTensor == Tensor4(0, <<>>, <<>>)
NoMask == [shape |-> <<0, 0>>, data |-> <<>>]
IdleCacheLog ==
    [op |-> "new", layer |-> 0, seq_len |-> 0, fresh |-> <<>>, kv_called |-> FALSE,
     was_empty |-> FALSE, was_fresh |-> "none",
     kin |-> NoTensor, vin |-> NoTensor, kv_ret |-> Fail("none"),
     mask_called |-> FALSE, mask_n |-> 0, mask |-> NoMask, mask_from |-> "none",
     had_masks |-> FALSE, ret |-> Fail("none")]
IdleConn ==
    [pc |-> "closed", side |-> "none", frames |-> 0, magic |-> 0, length |-> 0,
     payload_read |-> 0, err |-> "none"]

Init ==
    /\ cfg \in Configs
    /\ pc = "load"
    /\ blocks = <<>>
    /\ history = <<>>
    /\ tokens = <<>>
    /\ index_pos = 0
    /\ generated = 0
    /\ index = 0
    /\ nt = NoLocals
    /\ fwd = NoCall
    /\ eos_token_id = None
    /\ lastToken = NoToken
    /\ lastErr = NoErr
    /\ sink = <<>>
    /\ sinkSrc = <<>>
    /\ turn = [turns |-> 0, calls |-> 0]
    /\ cache = CacheNew(TRUE, cfg.num_hidden_layers)
    /\ cacheLog = IdleCacheLog
    /\ conn = IdleConn

\* Master::new: G::load(ctx.clone()).  Client::new connects to the worker and
\* may fail; load_tokenizer resolves the end-of-sequence id.
Load ==
    /\ pc = "load"
    /\ \E connected \in BOOLEAN :
         LET bs == LoadBlocks(0, cfg.num_hidden_layers, cfg.topology) IN
         IF connected
         THEN /\ blocks' = bs
              /\ eos_token_id' = ResolveEos(cfg.config_eos, cfg.tokenizer_eos)
              /\ pc' = "run"
              /\ lastErr' = lastErr
         ELSE /\ bs # <<>>
              /\ pc' = "error"
              /\ lastErr' = [op |-> "load", block |-> 0]
              /\ UNCHANGED <<blocks, eos_token_id>>
    /\ UNCHANGED <<cfg, history, tokens, index_pos, generated, index, nt, fwd,
                   lastToken, sink, sinkSrc, turn, cache, cacheLog, conn>>

\* Master::run, one iteration up to the call of generate: read a line; 'q'
\* leaves the loop; otherwise model.reset() and model.add_message(message).
RunTurn ==
    /\ pc = "run"
    /\ \/ /\ pc' = "exit"
          /\ UNCHANGED <<history, tokens, index_pos, generated, cache, turn,
                         sink, sinkSrc>>
       \/ /\ turn.turns < MaxTurns
          /\ \E m \in PromptLens :
               /\ history' = <<m>>
               /\ tokens' = <<>>
               /\ cache' = CacheClear(cache)
               /\ index_pos' = 0
               /\ generated' = 0
               /\ turn' = [turns |-> turn.turns + 1, calls |-> 0]
               /\ sink' = <<>>
               /\ sinkSrc' = <<>>
               /\ pc' = "generate"
    /\ UNCHANGED <<cfg, blocks, index, nt, fwd, eos_token_id, lastToken, lastErr,
                   cacheLog, conn>>

\* Master::generate up to its loop: stream(&self.ctx.args.prompt); index = 0.
GenerateStart ==
    /\ pc = "generate"
    /\ sink' = Append(sink, cfg.prompt)
    /\ sinkSrc' = Append(sinkSrc, "prompt")
    /\ index' = 0
    /\ pc' = "gen_loop"
    /\ UNCHANGED <<cfg, blocks, history, tokens, index_pos, generated, nt, fwd,
                   eos_token_id, lastToken, lastErr, turn, cache, cacheLog, conn>>

\* a prefill that does not tokenize the history
StartDialogPromptNoEncode(h, c) ==
    [tokens |-> <<>>, cache |-> CacheClear(c), index_pos |-> 0]

\* LLama::start_dialog_prompt, as a function of (history, cache)
StartDialogPrompt(h, c) ==
    [tokens |-> EncodeDialog(h), cache |-> CacheClear(c), index_pos |-> 0]

\* a choice that takes the whole buffer on every step
ContextChoiceWholeBuffer(use_kv_cache, idx, num_tokens, pos) == <<num_tokens, 0>>

\* the (context_size, context_index) choice of next_token
ContextChoice(use_kv_cache, idx, num_tokens, pos) ==
    IF use_kv_cache /\ idx > 0 THEN <<1, pos>> ELSE <<num_tokens, 0>>

\* a cursor that counts steps, not tokens
AdvancePosByOne(pos, num_context_tokens) == pos + 1

\* self.index_pos += num_context_tokens
AdvancePos(pos, num_context_tokens) == pos + num_context_tokens

\* the context next_token hands to forward: the tokens, and their position
SelectContext(toks, use_kv_cache, idx, pos) ==
    LET num_tokens == Len(toks)
        ctx == ContextChoice(use_kv_cache, idx, num_tokens, pos)
        context_offset == SaturatingSub(num_tokens, ctx[1])
    IN  [num_tokens |-> num_tokens, context_size |-> ctx[1], context_index |-> ctx[2],
         context_tokens |-> SubSeq(toks, context_offset + 1, num_tokens)]

\* generate's loop calls model.next_token(index); next_token up to the first
\* layer call of LLama::forward (embedding done, block_idx = 0).
NextTokenBegin ==
    /\ pc = "gen_loop"
    /\ turn.calls < MaxSteps
    /\ LET pre == IF generated = 0
                  THEN StartDialogPrompt(history, cache)
                  ELSE [tokens |-> tokens, cache |-> cache, index_pos |-> index_pos]
           sel == SelectContext(pre.tokens, pre.cache.use_kv_cache, index,
                                pre.index_pos)
           context_tokens == sel.context_tokens
       IN /\ tokens' = pre.tokens
          /\ cache' = pre.cache
          /\ index_pos' = pre.index_pos
          /\ nt' = [num_tokens |-> sel.num_tokens, context_size |-> sel.context_size,
                    context_index |-> sel.context_index,
                    num_context_tokens |-> Len(context_tokens)]
          /\ fwd' = [x |-> [seq_len |-> Len(context_tokens), input |-> context_tokens,
                            applied |-> <<>>],
                     idx |-> sel.context_index, block_idx |-> 0, calls |-> <<>>]
    /\ turn' = [turn EXCEPT !.calls = @ + 1]
    /\ pc' = "forward"
    /\ UNCHANGED <<cfg, blocks, history, generated, index, eos_token_id, lastToken,
                   lastErr, sink, sinkSrc, cacheLog, conn>>

(***************************************************************************)
(* LLama::forward: the dispatch loop.                                      *)
(***************************************************************************)
\* the inner while: from block_idx on, past every block whose ident() is curr
RECURSIVE CollectRun(_, _, _)
CollectRun(bs, block_idx, curr_block_id) ==
    IF block_idx < Len(bs) /\ bs[block_idx + 1].ident = curr_block_id
    THEN CollectRun(bs, block_idx + 1, curr_block_id)
    ELSE block_idx

\* a batch whose entries carry the index after the push
BatchOfIndexAfter(bs, first, last, idx) ==
    [k \in 1..(last - first) |-> <<bs[first + k].layer_name, idx, first + k>>]

\* the batch pushed for the blocks first..(last - 1)
BatchOf(bs, first, last, idx) ==
    [k \in 1..(last - first) |-> <<bs[first + k].layer_name, idx, first + k - 1>>]

\* a loop that tests block_idx < num_blocks
LoopContinuesToEnd(block_idx, num_blocks) == block_idx < num_blocks

\* the loop's test: while block_idx < (num_blocks - 1)
LoopContinues(block_idx, num_blocks) == block_idx < num_blocks - 1

\* a call whose result is dropped: x stays what it was
AppliedDropped(x, batch) == x

\* what a forwarder returns for x: x with the layers of the call applied
Applied(x, batch) ==
    [x EXCEPT !.applied = @ \o [k \in 1..Len(batch) |-> batch[k][1]]]

\* a failure that is swallowed: the caller goes on
TryIgnoreError(ok, cont) == cont

\* `.map_err(..)?` on the Result of a forward call: go on, or return the error
Try(ok, cont) == IF ok THEN cont ELSE "error"

\* One iteration of the loop: a local block runs forward_mut alone, a remote
\* block runs forward_batch for its whole run; either call may fail.
ForwardStep ==
    /\ pc = "forward"
    /\ Len(blocks) > 0
    /\ LoopContinues(fwd.block_idx, Len(blocks))
    /\ LET first == fwd.block_idx
           curr_block_id == blocks[first + 1].ident
           last == IF curr_block_id = "local" THEN first + 1
                   ELSE CollectRun(blocks, first, curr_block_id)
           batch == BatchOf(blocks, first, last, fwd.idx)
       IN \E ok \in BOOLEAN :
            LET call == [kind |-> IF curr_block_id = "local" THEN "local" ELSE "batch",
                         ident |-> curr_block_id, on |-> first, batch |-> batch,
                         input |-> fwd.x.applied, ok |-> ok]
            IN
            /\ pc' = Try(ok, pc)
            /\ IF ok
               THEN /\ fwd' = [fwd EXCEPT !.x = Applied(@, batch), !.block_idx = last,
                                          !.calls = Append(@, call)]
                    /\ UNCHANGED lastErr
               ELSE /\ fwd' = [fwd EXCEPT !.block_idx = last, !.calls = Append(@, call)]
                    /\ lastErr' = [op |-> call.kind,
                                   block |-> IF call.kind = "local" THEN first ELSE last]
    /\ UNCHANGED <<cfg, blocks, history, tokens, index_pos, generated, index, nt,
                   eos_token_id, lastToken, sink, sinkSrc, turn, cache, cacheLog, conn>>

\* With no block at all, num_blocks - 1 underflows: the debug build panics at
\* the subtraction, the release build wraps and panics indexing blocks[0].
ForwardPanic ==
    /\ pc = "forward"
    /\ Len(blocks) = 0
    /\ pc' = "panic"
    /\ lastErr' = [op |-> "panic", block |-> 0]
    /\ UNCHANGED <<cfg, blocks, history, tokens, index_pos, generated, index, nt, fwd,
                   eos_token_id, lastToken, sink, sinkSrc, turn, cache, cacheLog, conn>>

\* The loop is over: ln_f, the slice of the last position, lm_head; then the
\* rest of next_token: repeat penalty, index_pos, sampling, generated, tokens.
NextTokenEnd ==
    /\ pc = "forward"
    /\ Len(blocks) > 0
    /\ ~LoopContinues(fwd.block_idx, Len(blocks))
    /\ \/ /\ pc' = "error"
          /\ lastErr' = [op |-> "apply_repeat_penalty", block |-> 0]
          /\ UNCHANGED <<index_pos, generated, tokens, lastToken>>
       \/ /\ index_pos' = AdvancePos(index_pos, nt.num_context_tokens)
          /\ pc' = "error"
          /\ lastErr' = [op |-> "sample", block |-> 0]
          /\ UNCHANGED <<generated, tokens, lastToken>>
       \/ \E next_token \in Vocab :
            /\ index_pos' = AdvancePos(index_pos, nt.num_context_tokens)
            /\ generated' = generated + 1
            /\ tokens' = Append(tokens, next_token)
            /\ lastToken' = MakeToken(next_token, eos_token_id)
            /\ pc' = "token"
            /\ UNCHANGED lastErr
    /\ UNCHANGED <<cfg, blocks, history, index, nt, fwd, eos_token_id, sink, sinkSrc,
                   turn, cache, cacheLog, conn>>

\* generate's loop body after next_token returned: break on end of stream and
\* signal it with stream(""), otherwise stream the token and count.
GenerateToken ==
    /\ pc = "token"
    /\ IF lastToken.is_end_of_stream
       THEN /\ sink' = Append(sink, "")
            /\ sinkSrc' = Append(sinkSrc, "end")
            /\ pc' = "run"
            /\ UNCHANGED index
       ELSE /\ sink' = Append(sink, TokenToString(lastToken))
            /\ sinkSrc' = Append(sinkSrc, "token")
            /\ index' = index + 1
            /\ pc' = "gen_loop"
    /\ UNCHANGED <<cfg, blocks, history, tokens, index_pos, generated, nt, fwd,
                   eos_token_id, lastToken, lastErr, turn, cache, cacheLog, conn>>

Next ==
    \/ Load
    \/ RunTurn
    \/ GenerateStart
    \/ NextTokenBegin
    \/ ForwardStep
    \/ ForwardPanic
    \/ NextTokenEnd
    \/ GenerateToken

Spec == Init /\ [][Next]_vars

(***************************************************************************)
(* next_token's choice of input, step after step as Master::generate calls *)
(* it (index = 0, 1, 2, ..), on a cache built with either use_kv_cache; the *)
(* forward pass and the sampler are reduced to the token they produce.     *)
(***************************************************************************)
SelectConfigs == [use_kv_cache : BOOLEAN, prompt_len : PromptLens]

InitSelect ==
    /\ cfg \in SelectConfigs
    /\ pc = "select"
    /\ blocks = <<>>
    /\ history = <<cfg.prompt_len>>
    /\ tokens = <<>>
    /\ index_pos = 0
    /\ generated = 0
    /\ index = 0
    /\ nt = NoLocals
    /\ fwd = NoCall
    /\ eos_token_id = None
    /\ lastToken = NoToken
    /\ lastErr = NoErr
    /\ sink = <<>>
    /\ sinkSrc = <<>>
    /\ turn = [turns |-> 1, calls |-> 0]
    /\ cache = CacheNew(cfg.use_kv_cache, 1)
    /\ cacheLog = IdleCacheLog
    /\ conn = IdleConn

\* next_token(index) up to its call of forward
SelectStep ==
    /\ pc = "select"
    /\ turn.calls < MaxSteps
    /\ LET pre == IF generated = 0
                  THEN StartDialogPrompt(history, cache)
                  ELSE [tokens |-> tokens, cache |-> cache, index_pos |-> index_pos]
           sel == SelectContext(pre.tokens, pre.cache.use_kv_cache, index,
                                pre.index_pos)
       IN /\ tokens' = pre.tokens
          /\ cache' = pre.cache
          /\ index_pos' = pre.index_pos
          /\ nt' = [num_tokens |-> sel.num_tokens, context_size |-> sel.context_size,
                    context_index |-> sel.context_index,
                    num_context_tokens |-> Len(sel.context_tokens)]
          /\ fwd' = [x |-> [seq_len |-> Len(sel.context_tokens),
                            input |-> sel.context_tokens, applied |-> <<>>],
                     idx |-> sel.context_index, block_idx |-> 0, calls |-> <<>>]
    /\ turn' = [turn EXCEPT !.calls = @ + 1]
    /\ pc' = "selected"
    /\ UNCHANGED <<cfg, blocks, history, generated, index, eos_token_id, lastToken,
                   lastErr, sink, sinkSrc, cacheLog, conn>>

\* the rest of next_token, then generate's index += 1
SampleStep ==
    /\ pc = "selected"
    /\ \E next_token \in Vocab :
         /\ index_pos' = AdvancePos(index_pos, nt.num_context_tokens)
         /\ generated' = generated + 1
         /\ tokens' = Append(tokens, next_token)
         /\ lastToken' = MakeToken(next_token, eos_token_id)
    /\ index' = index + 1
    /\ pc' = "select"
    /\ UNCHANGED <<cfg, blocks, history, nt, fwd, eos_token_id, lastErr, sink, sinkSrc,
                   turn, cache, cacheLog, conn>>

NextSelect == SelectStep \/ SampleStep

SpecSelect == InitSelect /\ [][NextSelect]_vars

\* C17: on every step after the first, next_token hands forward the single
\* most recent token of the buffer at position index_pos when the KV cache is
\* enabled (the step index is non-zero), and the whole token buffer at
\* position 0 when the KV cache is disabled.
C17_DecodeInput ==
    (pc = "selected" /\ turn.calls > 1) =>
        /\ index > 0
        /\ IF cache.use_kv_cache
           THEN /\ fwd.x.input = <<tokens[Len(tokens)]>>
                /\ fwd.idx = index_pos
                /\ index_pos = Len(tokens) - 1
           ELSE /\ fwd.x.input = tokens
                /\ Len(tokens) = cfg.prompt_len + generated
                /\ fwd.idx = 0

\* the third step on a 4-token prompt with the cache enabled: one token, the
\* one sampled last, at position 5
C17_Witness ==
    /\ pc = "selected" /\ turn.calls = 3
    /\ cache.use_kv_cache
    /\ cfg.prompt_len = 4
    /\ fwd.x.input = <<2>> /\ tokens[Len(tokens)] = 2 /\ tokens[Len(tokens) - 1] = 0
    /\ fwd.idx = 5

\* the same step with the cache disabled: the 6 tokens of the buffer
C17_WitnessDisabled ==
    /\ pc = "selected" /\ turn.calls = 3
    /\ ~cache.use_kv_cache
    /\ Len(fwd.x.input) = 6
    /\ fwd.idx = 0

(***************************************************************************)
(* The public interface of a loaded Master, called in any order:           *)
(* Master::reset, model.add_message, Master::generate.  generate's loop is *)
(* modelled with the forward pass reduced to the token it leads to.  The   *)
(* bookkeeping counts the tokens handed to forward since the cache was     *)
(* last cleared.                                                           *)
(***************************************************************************)
MaxMessages == 2    \* messages added to the history between resets

InitApi ==
    /\ cfg = [num_hidden_layers |-> 1, prompt |-> ""]
    /\ pc = "api"
    /\ blocks = <<>>
    /\ history = <<>>
    /\ tokens = <<>>
    /\ index_pos = 0
    /\ generated = 0
    /\ index = 0
    /\ nt = NoLocals
    /\ fwd = NoCall
    /\ eos_token_id = Some(0)
    /\ lastToken = NoToken
    /\ lastErr = NoErr
    /\ sink = <<>>
    /\ sinkSrc = <<>>
    /\ turn = [turns |-> 0, calls |-> 0, fed |-> 0, fed_before |-> 0]
    /\ cache = CacheNew(TRUE, 1)
    /\ cacheLog = IdleCacheLog
    /\ conn = IdleConn

\* Master::reset -> LLama::reset
ApiReset ==
    /\ pc = "api"
    /\ tokens' = <<>>
    /\ history' = <<>>
    /\ cache' = CacheClear(cache)
    /\ index_pos' = 0
    /\ generated' = 0
    /\ turn' = [turn EXCEPT !.fed = 0]
    /\ UNCHANGED <<cfg, pc, blocks, index, nt, fwd, eos_token_id, lastToken, lastErr,
                   sink, sinkSrc, cacheLog, conn>>

\* LLama::add_message
ApiAddMessage ==
    /\ pc = "api"
    /\ Len(history) < MaxMessages
    /\ \E m \in PromptLens : history' = Append(history, m)
    /\ UNCHANGED <<cfg, pc, blocks, tokens, index_pos, generated, index, nt, fwd,
                   eos_token_id, lastToken, lastErr, sink, sinkSrc, turn, cache,
                   cacheLog, conn>>

\* Master::generate up to its loop
ApiGenerate ==
    /\ pc = "api"
    /\ history # <<>>
    /\ turn.turns < MaxTurns
    /\ sink' = <<cfg.prompt>>
    /\ sinkSrc' = <<"prompt">>
    /\ index' = 0
    /\ turn' = [turn EXCEPT !.turns = @ + 1, !.calls = 0]
    /\ pc' = "api_loop"
    /\ UNCHANGED <<cfg, blocks, history, tokens, index_pos, generated, nt, fwd,
                   eos_token_id, lastToken, lastErr, cache, cacheLog, conn>>

\* next_token(index) up to its call of forward
ApiNextToken ==
    /\ pc = "api_loop"
    /\ turn.calls < MaxSteps
    /\ LET pre == IF generated = 0
                  THEN StartDialogPrompt(history, cache)
                  ELSE [tokens |-> tokens, cache |-> cache, index_pos |-> index_pos]
           sel == SelectContext(pre.tokens, pre.cache.use_kv_cache, index,
                                pre.index_pos)
           fed_before == IF generated = 0 THEN 0 ELSE turn.fed
       IN /\ tokens' = pre.tokens
          /\ cache' = pre.cache
          /\ index_pos' = pre.index_pos
          /\ nt' = [num_tokens |-> sel.num_tokens, context_size |-> sel.context_size,
                    context_index |-> sel.context_index,
                    num_context_tokens |-> Len(sel.context_tokens)]
          /\ fwd' = [x |-> [seq_len |-> Len(sel.context_tokens),
                            input |-> sel.context_tokens, applied |-> <<>>],
                     idx |-> sel.context_index, block_idx |-> 0, calls |-> <<>>]
          /\ turn' = [turn EXCEPT !.calls = @ + 1, !.fed_before = fed_before,
                                  !.fed = fed_before + Len(sel.context_tokens)]
    /\ pc' = "api_forward"
    /\ UNCHANGED <<cfg, blocks, history, generated, index, eos_token_id, lastToken,
                   lastErr, sink, sinkSrc, cacheLog, conn>>

\* the rest of next_token and of the loop body of generate
ApiSample ==
    /\ pc = "api_forward"
    /\ \E next_token \in Vocab :
         LET token == MakeToken(next_token, eos_token_id) IN
         /\ index_pos' = AdvancePos(index_pos, nt.num_context_tokens)
         /\ generated' = generated + 1
         /\ tokens' = Append(tokens, next_token)
         /\ lastToken' = token
         /\ IF token.is_end_of_stream
            THEN /\ sink' = Append(sink, "")
                 /\ sinkSrc' = Append(sinkSrc, "end")
                 /\ pc' = "api"
                 /\ UNCHANGED index
            ELSE /\ sink' = Append(sink, TokenToString(token))
                 /\ sinkSrc' = Append(sinkSrc, "token")
                 /\ index' = index + 1
                 /\ pc' = "api_loop"
    /\ UNCHANGED <<cfg, blocks, history, nt, fwd, eos_token_id, lastErr, turn, cache,
                   cacheLog, conn>>

NextApi == ApiReset \/ ApiAddMessage \/ ApiGenerate \/ ApiNextToken \/ ApiSample

SpecApi == InitApi /\ [][NextApi]_vars

\* C25: for any sequence of reset, add_message and generate calls, every
\* forward pass is issued at the absolute position equal to the number of
\* tokens handed to forward since the cache was last cleared, and a pass of
\* more than one token is issued against a just-cleared cache.
C25_PositionConsistent ==
    pc = "api_forward" =>
        /\ fwd.idx = turn.fed_before
        /\ Len(fwd.x.input) > 1 => turn.fed_before = 0

(***************************************************************************)
(* Properties of the dispatch pass, the load and the generation loop.      *)
(***************************************************************************)
\* the layer indices of a sequence of calls, in the order they were issued
RECURSIVE CallIndices(_)
CallIndices(calls) ==
    IF calls = <<>> THEN <<>>
    ELSE CallIndices(SubSeq(calls, 1, Len(calls) - 1))
         \o [k \in 1..Len(calls[Len(calls)].batch) |-> calls[Len(calls)].batch[k][3]]

\* a call reduced to <<kind, identity, indices>>
CallSummary(call) ==
    <<call.kind, call.ident, [k \in 1..Len(call.batch) |-> call.batch[k][3]]>>

\* a forward pass has run its loop to the end and next_token returned a token
PassComplete == pc = "token"

\* the run of blocks first..last (0-based, inclusive) is a maximal run of ident
MaximalRun(bs, first, last, ident) ==
    /\ \A i \in first..last : bs[i + 1].ident = ident
    /\ first = 0 \/ bs[first].ident # ident
    /\ last = Len(bs) - 1 \/ bs[last + 2].ident # ident

\* C1: one forward pass over any forwarder list of length N >= 1 issues calls
\* that cover every layer index 0..N-1 exactly once, in ascending order, and
\* every maximal run of equal non-local identities is exactly one batch call.
C1_CoversEveryLayerOnce ==
    PassComplete =>
        /\ CallIndices(fwd.calls) = [i \in 1..Len(blocks) |-> i - 1]
        /\ \A c \in 1..Len(fwd.calls) :
             LET call == fwd.calls[c] IN
             IF call.kind = "local"
             THEN Len(call.batch) = 1 /\ blocks[call.on + 1].ident = "local"
             ELSE /\ call.ident # "local"
                  /\ Len(call.batch) >= 1
                  /\ MaximalRun(blocks, call.on, call.on + Len(call.batch) - 1,
                                call.ident)

\* the topology of the end-to-end scenario: layers 0 and 1 on node A, layer 2
\* on node B, layer 3 unmapped (local)
ScenarioTopology == (0 :> "A") @@ (1 :> "A") @@ (2 :> "B") @@ (3 :> "none")

InScenario ==
    /\ cfg.num_hidden_layers = 4
    /\ cfg.topology = ScenarioTopology
    /\ PassComplete
    /\ fwd.x.seq_len = 4

\* C2: in the end-to-end scenario one forward pass over a 4-token prompt
\* issues exactly the calls batch(A,[0,1]), batch(B,[2]), local(3), in order.
C2_ScenarioCalls ==
    InScenario =>
        [c \in 1..Len(fwd.calls) |-> CallSummary(fwd.calls[c])]
            = << <<"batch", "A", <<0, 1>> >>,
                 <<"batch", "B", <<2>> >>,
                 <<"local", "local", <<3>> >> >>

\* C4: next_token is never called more than sample_len times in one turn.
C4_CallsWithinSampleLen == turn.calls <= cfg.sample_len

\* the positions of `tokens` holding the tokens generated in this turn
GeneratedPositions == (Len(tokens) - generated + 1)..Len(tokens)

EosGenerated ==
    \E k \in GeneratedPositions : Some(tokens[k]) = eos_token_id

\* next_token has just returned a token whose id is the end-of-sequence id
EosReturned == pc = "token" /\ Some(lastToken.id) = eos_token_id

C5_Inv ==
    /\ \A k \in GeneratedPositions :
         Some(tokens[k]) = eos_token_id =>
            /\ k = Len(tokens)
            /\ pc \in {"token", "run", "exit"}
    /\ (EosGenerated /\ pc \in {"run", "exit"}) =>
            /\ sink[Len(sink)] = ""
            /\ sinkSrc[Len(sinkSrc)] = "end"
            /\ Cardinality({k \in 1..Len(sinkSrc) : sinkSrc[k] = "token"})
                 = generated - 1

C5_Step ==
    EosReturned =>
        /\ sink' = Append(sink, "")
        /\ turn'.calls = turn.calls
        /\ tokens' = tokens
        /\ pc' = "run"

\* C5: once next_token returns a token whose id is the end-of-sequence id,
\* generate makes no further next_token call in the turn, does not emit that
\* token's text, and emits the end-of-stream fragment.
C5_StopsAtFirstEos == [](C5_Inv) /\ [][C5_Step]_vars

\* a turn ended on the end-of-sequence id after at least one accepted token
C5_Witness ==
    /\ pc = "run" /\ generated > 1 /\ EosGenerated
    /\ sink[Len(sink)] = ""

\* generate returned Ok: the turn completed without error
TurnCompleted == pc = "run" /\ turn.turns > 0

\* the fragments of the tokens accepted in the turn, in sampling order
AcceptedFragments ==
    [k \in 1..(generated - 1) |->
        TokenToString(MakeToken(tokens[Len(tokens) - generated + k], eos_token_id))]

\* C6: in a completed turn the sink received one fragment per accepted token,
\* in sampling order, then the empty fragment, exactly once and last.
C6_StreamContract ==
    TurnCompleted =>
        /\ sink = AcceptedFragments \o <<"">>
        /\ \A k \in 1..(Len(sink) - 1) : sink[k] # ""

\* C7: after a successful load the forwarder list has num_hidden_layers
\* entries, entry i serving layer i: remote when the topology resolves the
\* layer to a node, local otherwise.
C7_OneForwarderPerLayer ==
    pc \notin {"load", "error"} =>
        /\ Len(blocks) = cfg.num_hidden_layers
        /\ \A i \in 0..(cfg.num_hidden_layers - 1) :
             /\ blocks[i + 1].layer_name = LayerName(i)
             /\ LET node == GetNodeForLayer(cfg.topology, LayerName(i)) IN
                IF node # None
                THEN blocks[i + 1].kind = "remote" /\ blocks[i + 1].ident = node[1]
                ELSE blocks[i + 1].kind = "local" /\ blocks[i + 1].ident = "local"

\* the step in which next_token returns a token
NextTokenReturns == pc = "forward" /\ pc' = "token"

C11_Step ==
    /\ turn'.turns = turn.turns => index_pos' >= index_pos
    /\ NextTokenReturns =>
          /\ index_pos' = index_pos + Len(fwd.x.input)
          /\ turn.calls = 1 => Len(fwd.x.input) = Len(EncodeDialog(history))
          /\ (turn.calls > 1 /\ cache.use_kv_cache) => Len(fwd.x.input) = 1

\* C11: within a turn index_pos never decreases, and each successful
\* next_token step advances it by the number of tokens fed to forward in that
\* step: the prompt length on the first step, 1 on every later step (KV cache
\* enabled).
C11_CursorAdvance == [][C11_Step]_vars

\* the second step of a turn on a 4-token prompt returned: the cursor is at 5
C11_Witness ==
    /\ pc = "token" /\ turn.calls = 2
    /\ history = <<4>>
    /\ index_pos = 5
    /\ Len(fwd.x.input) = 1

\* the calls of the current pass that returned an error
FailedCalls == {c \in 1..Len(fwd.calls) : ~fwd.calls[c].ok}

\* the fragments generate streamed for accepted tokens in this turn
TokenFragments == Cardinality({k \in 1..Len(sinkSrc) : sinkSrc[k] = "token"})

\* no layer index occurs twice among the calls of the pass
NoIndexTwice(calls) ==
    LET idxs == CallIndices(calls) IN
    \A a \in 1..Len(idxs) : \A b \in 1..Len(idxs) : idxs[a] = idxs[b] => a = b

C12_Inv ==
    FailedCalls # {} =>
        /\ FailedCalls = {Len(fwd.calls)}
        /\ NoIndexTwice(fwd.calls)
        /\ pc = "error"
        /\ lastErr.op \in {"local", "batch"}
        /\ generated = turn.calls - 1
        /\ Len(tokens) = Len(EncodeDialog(history)) + generated
        /\ TokenFragments = generated
        /\ sinkSrc[Len(sinkSrc)] # "end"

C12_Step ==
    /\ pc # "error"
    /\ (pc' = "error" /\ lastErr'.op \in {"local", "batch"}) =>
          /\ sink' = sink
          /\ sinkSrc' = sinkSrc
          /\ tokens' = tokens
          /\ generated' = generated
          /\ turn' = turn

\* C12: when a local forward or a remote batch forward fails, it is the last
\* call of the pass (no later layer is invoked, the call is not re-issued),
\* next_token returns the error without appending a token, generate returns
\* it without another next_token call (no step leaves the error state), the
\* sink keeps the fragments it has and gets none for the failed step.
C12_FailurePropagates == [](C12_Inv) /\ [][C12_Step]_vars

\* the second call of the second step's pass failed, one token was streamed
C12_Witness ==
    /\ pc = "error" /\ lastErr.op = "batch"
    /\ Len(fwd.calls) = 2 /\ ~fwd.calls[2].ok
    /\ turn.calls = 2 /\ TokenFragments = 1

\* the layer names of blocks 0..(n - 1), in order
LayersBelow(bs, n) == [k \in 1..n |-> bs[k].layer_name]

\* C13: a decode step starts only after the previous step's token is in the
\* token buffer (and is the last token of its input); the calls of a pass are
\* issued one after the other, each after every earlier call returned Ok, and
\* the input of a call is the output of the call before it: x with exactly
\* the layers below the call's first index applied, in order.
C13_Sequential ==
    /\ pc = "forward" =>
          /\ generated = turn.calls - 1
          /\ Len(tokens) = Len(EncodeDialog(history)) + generated
          /\ turn.calls > 1 =>
                fwd.x.input[Len(fwd.x.input)] = tokens[Len(tokens)]
    /\ \A c \in 1..Len(fwd.calls) :
          LET call == fwd.calls[c] IN
          /\ c < Len(fwd.calls) => call.ok
          /\ call.input = LayersBelow(blocks, call.on)
          /\ c = 1 => call.on = 0
          /\ c > 1 => call.input = fwd.calls[c - 1].input
                         \o [k \in 1..Len(fwd.calls[c - 1].batch) |->
                               fwd.calls[c - 1].batch[k][1]]

\* the second call of a pass in the second step of a turn
C13_Witness ==
    /\ pc = "forward" /\ turn.calls = 2
    /\ Len(fwd.calls) = 2
    /\ fwd.calls[2].input # <<>>

\* the layer indices the calls of the pass executed
ExecutedIndices == {CallIndices(fwd.calls)[k] : k \in 1..Len(CallIndices(fwd.calls))}

\* C14 as stated: in every forward pass over N >= 1 forwarders the layer at
\* index N-1 is never executed, neither by a local forward nor in a batch.
C14_LastLayerNeverExecuted == (Len(blocks) - 1) \notin ExecutedIndices

\* C14 as amended: no call of a pass starts at the final index N-1; the layer
\* N-1 is executed exactly when its forwarder shares its non-local identity
\* with the forwarder at N-2, as a later member of that run's batch.
C14_LastLayerOnlyInsideBatch ==
    /\ \A c \in 1..Len(fwd.calls) : fwd.calls[c].on < Len(blocks) - 1
    /\ PassComplete =>
          ((Len(blocks) - 1) \in ExecutedIndices
             <=> /\ Len(blocks) >= 2
                 /\ blocks[Len(blocks)].ident = blocks[Len(blocks) - 1].ident
                 /\ blocks[Len(blocks)].ident # "local")

\* a pass over three forwarders executed layer 2 inside a batch begun below it
C14_Witness ==
    /\ PassComplete
    /\ Len(blocks) = 3
    /\ 2 \in ExecutedIndices
    /\ fwd.calls[Len(fwd.calls)].on < 2

\* C15: every batch passed to forward_batch is non-empty, its entries have
\* consecutive ascending indices starting at the forwarder the call is made
\* on, the forwarders of those indices share the call's non-local identity
\* and give the entries their layer names, every entry carries the pass's
\* position, and the cursor after the call is the last index + 1.
C15_BatchWellFormed ==
    \A c \in 1..Len(fwd.calls) :
        LET call == fwd.calls[c]
            batch == call.batch
        IN  call.kind = "batch" =>
              /\ Len(batch) >= 1
              /\ call.ident # "local"
              /\ \A k \in 1..Len(batch) : batch[k][3] = call.on + k - 1
              /\ \A k \in 1..Len(batch) :
                    /\ blocks[batch[k][3] + 1].ident = call.ident
                    /\ blocks[batch[k][3] + 1].layer_name = batch[k][1]
                    /\ batch[k][2] = fwd.idx
              /\ IF c < Len(fwd.calls)
                 THEN fwd.calls[c + 1].on = batch[Len(batch)][3] + 1
                 ELSE fwd.block_idx = batch[Len(batch)][3] + 1

\* a batch of two layers issued at a non-zero position
C15_Witness ==
    /\ PassComplete /\ turn.calls = 2
    /\ fwd.idx > 0
    /\ \E c \in 1..Len(fwd.calls) :
          fwd.calls[c].kind = "batch" /\ Len(fwd.calls[c].batch) = 2

\* the step in which next_token is called with generated == 0
PrefillStep == pc = "gen_loop" /\ pc' = "forward" /\ generated = 0

C16_Step ==
    PrefillStep =>
        /\ tokens' = EncodeDialog(history)
        /\ cache' = CacheClear(cache)
        /\ \A i \in 1..Len(cache'.kvs) : cache'.kvs[i] = None
        /\ index_pos' = 0
        /\ fwd'.x.input = tokens'
        /\ fwd'.idx = 0
        /\ fwd'.calls = <<>>
        /\ turn'.calls = turn.calls + 1

C16_Inv ==
    (pc = "forward" /\ generated = 0) =>
        /\ turn.calls = 1
        /\ fwd.x.input = EncodeDialog(history)
        /\ fwd.idx = 0

\* C16: a next_token call made while generated == 0 clears the token buffer
\* and the cache, sets index_pos to 0, tokenizes the history, and feeds the
\* whole tokenized prompt to forward at position 0, once in the turn.
C16_Prefill == [](C16_Inv) /\ [][C16_Step]_vars

\* the prefill of a second turn: the buffer holds the 4 tokens of its prompt
C16_Witness ==
    /\ pc = "forward" /\ generated = 0
    /\ turn.turns = 2
    /\ Len(tokens) = 4 /\ fwd.x.input = tokens
    /\ index_pos = 0

\* C21: every entry (layer name, position, layer index) of a batch carries
\* the index i of its layer name model.layers.i, whatever the topology.
C21_EntrySelfConsistent ==
    \A c \in 1..Len(fwd.calls) :
        \A k \in 1..Len(fwd.calls[c].batch) :
            fwd.calls[c].batch[k][1] = LayerName(fwd.calls[c].batch[k][3])

\* C22: the error of a failed forward call names the offending layer or batch
\* window: a failed local forward reports its layer's index, a failed batch
\* a block index within the indices [first, last] of the batch.
C22_ErrorLocalized ==
    (pc = "error" /\ lastErr.op \in {"local", "batch"}) =>
        LET call == fwd.calls[Len(fwd.calls)] IN
        /\ ~call.ok
        /\ IF lastErr.op = "local"
           THEN lastErr.block = call.on
           ELSE /\ call.batch[1][3] <= lastErr.block
                /\ lastErr.block <= call.batch[Len(call.batch)][3]

\* C23: after every successful next_token step of a turn driven by
\* Master::run the token buffer holds the prompt and the generated tokens,
\* index_pos is the buffer length - 1, and generated counts the successful
\* next_token calls since the reset, the end-of-sequence token included.
C23_SessionAccounting ==
    pc = "token" =>
        /\ Len(tokens) = Len(EncodeDialog(history)) + generated
        /\ index_pos = Len(tokens) - 1
        /\ generated = turn.calls
        /\ tokens[Len(tokens)] = lastToken.id

\* two steps of a turn on a 4-token prompt, the second sampling the
\* end-of-sequence id
C23_Witness ==
    /\ pc = "token" /\ generated = 2
    /\ history = <<4>>
    /\ lastToken.is_end_of_stream
    /\ Len(tokens) = 6 /\ index_pos = 5

C24_Step ==
    (pc = "forward" /\ pc' = "error" /\ generated > 0) =>
        /\ tokens' = tokens
        /\ generated' = generated
        /\ index_pos' = index_pos

\* C24: a next_token call made with generated > 0 that returns an error, from
\* the forward pass, the repeat penalty or the sampler, leaves the token
\* buffer, generated and index_pos as they were before the call.
C24_FailureAtomic == [][C24_Step]_vars

\* C27: the traversal is well-defined for every forwarder list, the empty
\* one included: num_blocks - 1 does not underflow and no forwarder is
\* indexed out of range (no panic), the cursor stays within the list, and no
\* layer is called twice in a pass.
C27_TraversalWellDefined ==
    /\ pc # "panic"
    /\ fwd.block_idx <= Len(blocks)
    /\ NoIndexTwice(fwd.calls)

(***************************************************************************)
(* The cache under its callers: CausalSelfAttention::forward for one block *)
(* (rotary tables, process_kv, mask), Cache::mask and Cache::clear.        *)
(***************************************************************************)
MaxStored == 2 * MAX_SEQ_LEN + 1     \* entries one slot may reach in the model

\* the lengths Cache::mask is called with on its own
MaskLens == {0, 1, 3}

\* (num_key_value_heads, head_dim): a usual shape, and the shapes whose
\* dims()[1] passes the thresholds of process_kv
ShapeChoices ==
    { <<1, 2>>, <<MAX_SEQ_LEN + 1, 2>>, <<MAX_SEQ_LEN + 1, 2 * MAX_SEQ_LEN + 1>>,
      <<2 * MAX_SEQ_LEN + 1, 2 * MAX_SEQ_LEN + 1>> }

CacheConfigs ==
    { [num_hidden_layers |-> 1, num_key_value_heads |-> sh[1], head_dim |-> sh[2]] :
        sh \in ShapeChoices }
    \cup { [num_hidden_layers |-> 2, num_key_value_heads |-> 1, head_dim |-> 2],
           [num_hidden_layers |-> 2, num_key_value_heads |-> MAX_SEQ_LEN + 1,
            head_dim |-> 2 * MAX_SEQ_LEN + 1] }

InitCache ==
    /\ cfg \in CacheConfigs
    /\ pc = "cache"
    /\ blocks = <<>>
    /\ history = <<>>
    /\ tokens = <<>>
    /\ index_pos = 0
    /\ generated = 0
    /\ index = 0
    /\ nt = NoLocals
    /\ fwd = NoCall
    /\ eos_token_id = None
    /\ lastToken = NoToken
    /\ lastErr = NoErr
    /\ sink = <<>>
    /\ sinkSrc = <<>>
    /\ turn = [turns |-> 0, calls |-> 0]
    /\ cache = CacheNew(TRUE, cfg.num_hidden_layers)
    /\ cacheLog = [IdleCacheLog EXCEPT !.fresh = [i \in 1..cfg.num_hidden_layers |-> "new"]]
    /\ conn = IdleConn

\* the key (or value) tensor attention computes for seq_len tokens at index_pos
NewKV(seq_len, position) ==
    Tensor4(cfg.num_key_value_heads,
            [i \in 1..seq_len |-> position + i - 1],
            [c \in 1..cfg.head_dim |-> c - 1])

StoredLen(c, block_idx) ==
    IF c.kvs[block_idx + 1] = None THEN 0 ELSE SeqLen(c.kvs[block_idx + 1][1][1])

\* CausalSelfAttention::forward(x, index_pos, block_idx, cache)
AttnForward ==
    /\ pc = "cache"
    /\ \E block_idx \in 0..(cfg.num_hidden_layers - 1), seq_len \in {1, MAX_SEQ_LEN} :
       \E position \in {0, StoredLen(cache, block_idx)} :
         /\ StoredLen(cache, block_idx) + seq_len <= MaxStored
         /\ LET cos == Rotary(cache.cos, position, seq_len)
                k == NewKV(seq_len, position)
                v == NewKV(seq_len, position)
                kv == ProcessKV(cache, block_idx, k, v)
                log == [IdleCacheLog EXCEPT !.op = "attn", !.layer = block_idx,
                                            !.seq_len = seq_len,
                                            !.fresh = cacheLog.fresh,
                                            !.was_empty = (cache.kvs[block_idx + 1] = None),
                                            !.was_fresh = cacheLog.fresh[block_idx + 1]]
            IN
            IF ~cos.ok
            THEN /\ cache' = cache
                 /\ cacheLog' = [log EXCEPT !.ret = Fail("apply_rotary_emb")]
            ELSE IF ~kv.ret.ok
            THEN /\ cache' = kv.cache
                 /\ cacheLog' = [log EXCEPT !.kv_called = TRUE, !.kin = k, !.vin = v,
                                            !.kv_ret = kv.ret,
                                            !.ret = Fail("process_kv")]
            ELSE LET kk == kv.ret.val[1]
                     vv == kv.ret.val[2]
                     log2 == [log EXCEPT !.kv_called = TRUE, !.kin = k, !.vin = v,
                                         !.kv_ret = kv.ret,
                                         !.fresh[block_idx + 1] = "used"]
                     m == CacheMask(kv.cache, seq_len)
                 IN
                 \* q.matmul(&k.t()): the last axes of q and k must agree
                 IF Len(kk.cols) # cfg.head_dim
                 THEN /\ cache' = kv.cache
                      /\ cacheLog' = [log2 EXCEPT !.ret = Fail("matmul")]
                 ELSE IF seq_len = 1
                 THEN /\ cache' = kv.cache
                      /\ cacheLog' = [log2 EXCEPT !.ret =
                            IF SeqLen(kk) = SeqLen(vv) /\ Len(vv.cols) = cfg.head_dim
                            THEN Ok("y") ELSE Fail("matmul")]
                 ELSE /\ cache' = m.cache
                      /\ cacheLog' = [log2 EXCEPT
                            !.mask_called = TRUE, !.mask_n = seq_len,
                            !.mask = m.mask, !.mask_from = m.from,
                            !.ret =
                              \* mask.broadcast_as(att.shape()): (seq_len, seq_len)
                              \* against (.., seq_len, kv_len)
                              IF SeqLen(kk) # seq_len THEN Fail("broadcast_as")
                              ELSE IF SeqLen(kk) = SeqLen(vv) /\ Len(vv.cols) = cfg.head_dim
                              THEN Ok("y") ELSE Fail("matmul")]
    /\ UNCHANGED <<cfg, masterVars, conn>>

\* Cache::mask(seq_len), called on its own
MaskCall ==
    /\ pc = "cache"
    /\ \E seq_len \in MaskLens :
         LET m == CacheMask(cache, seq_len) IN
         /\ cache' = m.cache
         /\ cacheLog' = [IdleCacheLog EXCEPT !.op = "mask", !.fresh = cacheLog.fresh,
                                             !.mask_called = TRUE, !.mask_n = seq_len,
                                             !.mask = m.mask, !.mask_from = m.from,
                                             !.ret = Ok("mask")]
    /\ UNCHANGED <<cfg, masterVars, conn>>

\* Cache::clear()
ClearCall ==
    /\ pc = "cache"
    /\ cache' = CacheClear(cache)
    /\ cacheLog' = [IdleCacheLog EXCEPT !.op = "clear",
                       !.fresh = [i \in 1..Len(cache.kvs) |->
                                    IF cacheLog.fresh[i] \in {"used", "cleared_used"}
                                    THEN "cleared_used" ELSE "clear"],
                       !.had_masks = (cache.masks # <<>>),
                       !.ret = Ok("clear")]
    /\ UNCHANGED <<cfg, masterVars, conn>>

NextCache == AttnForward \/ MaskCall \/ ClearCall

SpecCache == InitCache /\ [][NextCache]_vars

(***************************************************************************)
(* Properties of the cache.                                                *)
(***************************************************************************)
\* C3: with the KV cache enabled, the stored key and the stored value of a
\* layer never exceed MAX_SEQ_LEN entries along the sequence axis, and a
\* first call on an empty slot with L <= MAX_SEQ_LEN entries returns and
\* stores exactly L.
C3_WindowBound ==
    /\ \A i \in 1..Len(cache.kvs) :
         cache.kvs[i] # None =>
            /\ SeqLen(cache.kvs[i][1][1]) <= MAX_SEQ_LEN
            /\ SeqLen(cache.kvs[i][1][2]) <= MAX_SEQ_LEN
    /\ (cacheLog.kv_called /\ cacheLog.was_empty /\ cacheLog.seq_len <= MAX_SEQ_LEN) =>
            /\ cacheLog.kv_ret.ok
            /\ SeqLen(cacheLog.kv_ret.val[1]) = cacheLog.seq_len
            /\ SeqLen(cacheLog.kv_ret.val[2]) = cacheLog.seq_len
            /\ StoredLen(cache, cacheLog.layer) = cacheLog.seq_len

\* C8: a clear applied to a just-cleared cache changes nothing, and the first
\* process_kv on a layer after a clear stores and returns exactly the key and
\* value passed in, whatever preceded the clear.
C8_ResetIdempotent ==
    /\ cacheLog.op = "clear" => CacheClear(cache) = cache
    /\ (cacheLog.kv_called /\ cacheLog.was_fresh \in {"clear", "cleared_used"}) =>
            /\ cacheLog.kv_ret = Ok(<<cacheLog.kin, cacheLog.vin>>)
            /\ cache.kvs[cacheLog.layer + 1] = Some(<<cacheLog.kin, cacheLog.vin>>)

\* process_kv ran on a slot that had held entries before the last clear
C8_Witness ==
    /\ cacheLog.kv_called
    /\ cacheLog.was_fresh = "cleared_used"
    /\ cacheLog.kv_ret.ok
    /\ cacheLog.seq_len = MAX_SEQ_LEN

\* m is the n x n mask whose entry (i, j) is masked iff j > i
IsCausalMask(m, n) ==
    /\ m.shape = <<n, n>>
    /\ Len(m.data) = n * n
    /\ \A i \in 0..(n - 1) : \A j \in 0..(n - 1) :
         (m.data[i * n + j + 1] = 1) <=> (j > i)

\* C9: every mask Cache::mask(n) returns, built or taken from the memo, is
\* the n x n mask whose entry (i, j) is masked iff j > i; so are the masks
\* the memo holds, hence two calls with the same n return identical masks.
C9_MaskMemo ==
    /\ \A n \in DOMAIN cache.masks : IsCausalMask(cache.masks[n], n)
    /\ cacheLog.mask_called =>
            /\ IsCausalMask(cacheLog.mask, cacheLog.mask_n)
            /\ cache.masks[cacheLog.mask_n] = cacheLog.mask

\* mask(3) answered from the memo
C9_Witness ==
    /\ cacheLog.mask_called
    /\ cacheLog.mask_from = "memo"
    /\ cacheLog.mask_n = 3
    /\ cacheLog.mask.data = <<0, 1, 1, 0, 0, 1, 0, 0, 0>>

\* the last n entries of a sequence (all of it when it has no more than n)
LastN(q, n) == IF Len(q) <= n THEN q ELSE SubSeq(q, Len(q) - n + 1, Len(q))

C18_Step ==
    (cacheLog'.kv_called /\ cacheLog'.kv_ret.ok) =>
        LET i == cacheLog'.layer + 1
            before == cache.kvs[i]
            k == cacheLog'.kin
            v == cacheLog'.vin
            ret == cacheLog'.kv_ret.val
        IN  /\ cache'.kvs[i] = Some(ret)
            /\ IF before = None
               THEN ret = <<k, v>>
               ELSE /\ ret[1].seq = LastN(before[1][1].seq \o k.seq, MAX_SEQ_LEN)
                    /\ ret[2].seq = LastN(before[1][2].seq \o v.seq, MAX_SEQ_LEN)

\* C18: with the cache enabled, process_kv on an empty slot stores and returns
\* the given key and value; on an occupied slot it returns the stored entries
\* followed by the new ones along the sequence axis, cut from the front to the
\* most recent MAX_SEQ_LEN positions; what it returns is what the slot holds.
C18_MergeSemantics == [][C18_Step]_vars

C19_Step ==
    cacheLog'.kv_called =>
        /\ Len(cache'.kvs) = Len(cache.kvs)
        /\ \A j \in 1..Len(cache.kvs) :
              j # cacheLog'.layer + 1 => cache'.kvs[j] = cache.kvs[j]
        /\ cache'.cos = cache.cos
        /\ cache'.sin = cache.sin
        /\ cache'.use_kv_cache = cache.use_kv_cache
        /\ IF cacheLog'.mask_called
           THEN /\ DOMAIN cache'.masks = DOMAIN cache.masks \cup {cacheLog'.mask_n}
                /\ \A n \in DOMAIN cache.masks : cache'.masks[n] = cache.masks[n]
           ELSE cache'.masks = cache.masks
        /\ ~cacheLog'.kv_ret.ok =>
              /\ ~cacheLog'.mask_called
              /\ \A j \in 1..Len(cache.kvs) : cache'.kvs[j] = cache.kvs[j]

\* C19: a process_kv call for layer i, whether it returns Ok or an error,
\* leaves the slot of every other layer, the rotary tables and the memoized
\* masks as they were (the memo changes only by the Cache::mask call that
\* attention makes after a successful process_kv); a failed one changes no
\* slot at all.
C19_SlotIndependence == [][C19_Step]_vars

\* process_kv failed on one layer of two while the other held entries and a
\* mask was memoized
C19_Witness ==
    /\ cacheLog.kv_called /\ ~cacheLog.kv_ret.ok
    /\ Len(cache.kvs) = 2
    /\ cache.kvs[2 - cacheLog.layer] # None
    /\ cache.masks # <<>>

C20_Step ==
    cacheLog'.op = "clear" =>
        /\ Len(cache'.kvs) = Len(cache.kvs)
        /\ \A i \in 1..Len(cache'.kvs) : cache'.kvs[i] = None
        /\ cache'.masks = <<>>
        /\ cache'.cos = cache.cos
        /\ cache'.sin = cache.sin
        /\ cache'.use_kv_cache = cache.use_kv_cache

\* C20: Cache::clear empties every key/value slot and the mask memo and
\* leaves the rotary tables, the use_kv_cache flag and the number of slots
\* as they were.
C20_ClearFrame == [][C20_Step]_vars

\* a clear of a two-layer cache that held entries in both slots and masks
C20_Witness ==
    /\ cacheLog.op = "clear"
    /\ cacheLog.had_masks
    /\ Len(cache.kvs) = 2
    /\ \A i \in 1..2 : cacheLog.fresh[i] = "cleared_used" /\ cache.kvs[i] = None
    /\ cache.cos = CacheNew(TRUE, 2).cos

\* C26: in every cache state, the key and the value stored in an occupied
\* slot have the same length along the sequence axis, also after calls whose
\* combined length passes MAX_SEQ_LEN and 2 * MAX_SEQ_LEN or whose shape
\* takes a clamp of process_kv.
C26_KeyValueSameLength ==
    \A i \in 1..Len(cache.kvs) :
        cache.kvs[i] # None =>
            SeqLen(cache.kvs[i][1][1]) = SeqLen(cache.kvs[i][1][2])

\* a slot filled past 2 * MAX_SEQ_LEN positions by a process_kv that took the
\* clamp on the key and not on the value
C26_Witness ==
    /\ cacheLog.kv_called /\ cacheLog.kv_ret.ok /\ ~cacheLog.was_empty
    /\ cfg.num_key_value_heads = MAX_SEQ_LEN + 1
    /\ LET kv == cache.kvs[cacheLog.layer + 1][1] IN
       /\ SeqLen(kv[1]) >= MAX_SEQ_LEN + 1
       /\ SeqLen(kv[1]) = SeqLen(kv[2])
       /\ Len(kv[1].cols) = MAX_SEQ_LEN
       /\ Len(kv[2].cols) = cfg.head_dim

\* a slot of the usual shape filled past 2 * MAX_SEQ_LEN positions
C26_WitnessPastBoth ==
    \E i \in 1..Len(cache.kvs) :
        /\ cache.kvs[i] # None
        /\ SeqLen(cache.kvs[i][1][1]) > 2 * MAX_SEQ_LEN
        /\ SeqLen(cache.kvs[i][1][2]) > 2 * MAX_SEQ_LEN

(***************************************************************************)
(* Receipt of protocol frames on one connection, by the master (awaiting a *)
(* response) or by a worker (awaiting a request):                          *)
(* [magic:4][length:4][payload:length].                                    *)
(***************************************************************************)
Magics == {PROTO_MAGIC, PROTO_MAGIC + 1, 0}
Lengths == {0, 1, MESSAGE_MAX_SIZE - 1, MESSAGE_MAX_SIZE, MESSAGE_MAX_SIZE + 1,
            2147483647}

\* the validation of a received header
FrameHeaderError(magic, length) ==
    IF magic # PROTO_MAGIC THEN "magic"
    ELSE IF length = 0 \/ length > MESSAGE_MAX_SIZE THEN "length"
    ELSE "none"

InitFrame ==
    /\ cfg = [num_hidden_layers |-> 1]
    /\ pc = "frame"
    /\ blocks = <<>>
    /\ history = <<>>
    /\ tokens = <<>>
    /\ index_pos = 0
    /\ generated = 0
    /\ index = 0
    /\ nt = NoLocals
    /\ fwd = NoCall
    /\ eos_token_id = None
    /\ lastToken = NoToken
    /\ lastErr = NoErr
    /\ sink = <<>>
    /\ sinkSrc = <<>>
    /\ turn = [turns |-> 0, calls |-> 0]
    /\ cache = CacheNew(TRUE, 1)
    /\ cacheLog = IdleCacheLog
    /\ \E side \in {"master", "worker"} :
         conn = [IdleConn EXCEPT !.pc = "await_header", !.side = side]

\* the 8 bytes of a header arrive and are validated; a bad header is a
\* protocol error and the connection is terminated
ReceiveHeader ==
    /\ pc = "frame"
    /\ conn.pc = "await_header"
    /\ conn.frames < MaxFrames
    /\ \E magic \in Magics, length \in Lengths :
         LET e == FrameHeaderError(magic, length) IN
         conn' = [conn EXCEPT !.magic = magic, !.length = length,
                              !.payload_read = 0, !.err = e,
                              !.pc = IF e = "none" THEN "await_payload"
                                     ELSE "terminated"]
    /\ UNCHANGED <<cfg, masterVars, cache, cacheLog>>

\* the payload of an accepted header is read: length bytes
ReadPayload ==
    /\ pc = "frame"
    /\ conn.pc = "await_payload"
    /\ conn' = [conn EXCEPT !.payload_read = conn.length, !.frames = @ + 1,
                            !.pc = "await_header"]
    /\ UNCHANGED <<cfg, masterVars, cache, cacheLog>>

NextFrame == ReceiveHeader \/ ReadPayload

SpecFrame == InitFrame /\ [][NextFrame]_vars

\* C10: the payload of a frame is read only if the magic is PROTO_MAGIC and
\* the declared length satisfies 0 < length <= 512 MiB; a header with a wrong
\* magic or an out-of-range length terminates the connection as a protocol
\* error, and not one byte of its payload is read.
C10_FrameValidation ==
    /\ conn.payload_read > 0 =>
            /\ conn.magic = 17102023
            /\ 0 < conn.length /\ conn.length <= 536870912
            /\ conn.payload_read = conn.length
    /\ conn.pc = "await_payload" =>
            /\ conn.magic = 17102023
            /\ 0 < conn.length /\ conn.length <= 536870912
    /\ (conn.pc \in {"await_payload", "terminated"}
          /\ (conn.magic # 17102023 \/ conn.length = 0 \/ conn.length > 536870912)) =>
            /\ conn.pc = "terminated"
            /\ conn.err # "none"
            /\ conn.payload_read = 0

\* a frame of the maximum size was read after an earlier frame, and a header
\* one byte over the maximum was then rejected
C10_Witness ==
    /\ conn.frames >= 2
    /\ conn.pc = "terminated"
    /\ conn.magic = PROTO_MAGIC
    /\ conn.length = MESSAGE_MAX_SIZE + 1
    /\ conn.payload_read = 0

====
